---- MODULE Spec2Model ----
(***************************************************************************)
(* The coin ledger of the LMS backend: the request handlers                *)
(* submitQuizResult (controllers/user/quizController.ts), updateVideoProgress *)
(* and markChapterAsWatched (controllers/user/userProgressController.ts)   *)
(* running against the relational store (User, Wallet, Transaction,        *)
(* QuizResult, chapterProgress).  Every await of a handler is one step, so *)
(* that requests interleave at the store operations; the statements of a   *)
(* prisma.$transaction callback are buffered in the request and become     *)
(* visible together when the callback returns (commit), or not at all.     *)
(* The store is PostgreSQL at its default isolation: a request reads what  *)
(* has been committed, a unique index rejects a second row with the same   *)
(* key, and an insert waits for an uncommitted insert of the same key.     *)
(* Next to the ledger: enrollInCourse, unenrollFromCourse and              *)
(* getChapterDetails (EnrolledCourse, chapter order), and the video of a   *)
(* chapter (uploadVideoToChapter, deleteVideo, handleMuxWebhook in         *)
(* controllers/admin/videoController.ts) with the assets Mux creates.      *)
(* Not modelled: the timestamps attemptedAt and watchedAt, and the 401 of  *)
(* a request without identity (requireAuth supplies req.user).             *)
(***************************************************************************)
EXTENDS Integers, Sequences, FiniteSets, TLC

VARIABLES
    coinsEarned,      \* User.coinsEarned, by user id
    wallets,          \* the Wallet table: rows [id, userId, balance]
    transactions,     \* the Transaction table, in insertion order
    quizResults,      \* the QuizResult table: rows [id, userId, quizId, score, passed]
    chapterProgress,  \* the chapterProgress table: rows [id, userId, chapterId, completed, currentTime]
    req,              \* per connection: the request it serves, its position in the
                      \* handler and its locals; once answered, the response
    grants,           \* history: how many reward blocks have been entered
    enrolledCourses,  \* the EnrolledCourse table: rows [id, userId, courseId]
    chapterVideo,     \* Chapter's video columns, by chapter id:
                      \* [videoStatus, muxAssetId, muxPlaybackId, videoUrl]
    assets            \* how many assets Mux has created (asset ids are 1..assets)

vars == <<coinsEarned, wallets, transactions, quizResults, chapterProgress, req, grants,
          enrolledCourses, chapterVideo, assets>>
store == <<coinsEarned, wallets, transactions, quizResults, chapterProgress>>
aux == <<enrolledCourses, chapterVideo, assets>>

\* New requests are admitted while fewer than MaxGrants reward blocks have been
\* entered (User.coinsEarned and the Transaction table grow without bound otherwise).
MaxGrants == 2

Users == {"u1", "u2"}
Reqs == {"r1", "r2"}

\* Unit definitions, read-only for the handlers.
Quiz == [q1 |-> [title |-> "Q1", passScore |-> 70, coinValue |-> 50],
         q2 |-> [title |-> "Q2", passScore |-> 70, coinValue |-> 30],
         q0 |-> [title |-> "Q0", passScore |-> 70, coinValue |-> 0],
         qn |-> [title |-> "QN", passScore |-> 70, coinValue |-> 0 - 10]]
Chapter == [c1 |-> [title |-> "C1", coinValue |-> 20, isPublished |-> TRUE,
                    courseId |-> "k1", order |-> 1],
            c2 |-> [title |-> "C2", coinValue |-> 20, isPublished |-> FALSE,
                    courseId |-> "k1", order |-> 2],
            c3 |-> [title |-> "C3", coinValue |-> 20, isPublished |-> TRUE,
                    courseId |-> "k1", order |-> 3],
            c4 |-> [title |-> "C4", coinValue |-> 20, isPublished |-> TRUE,
                    courseId |-> "k1", order |-> 4]]
Course == [k1 |-> [isPublished |-> TRUE],
           k2 |-> [isPublished |-> FALSE]]
CourseIds == DOMAIN Course
QuizIds == DOMAIN Quiz
\* The quiz the general specifications submit to; the scenarios about a second
\* rewarded quiz or a quiz without reward name theirs.
CoreQuizIds == {"q1"}
ChapterIds == DOMAIN Chapter
CoreChapterIds == {"c1"}

\* Request inputs.
Scores == {60, 80, 90}
Times == {15}

----------------------------------------------------------------------------
\* Helpers over the tables.

Max(S) == CHOOSE x \in S : \A y \in S : y <= x
NextId(rows) == IF rows = {} THEN 1 ELSE 1 + Max({w.id : w \in rows})

\* Template strings `Passed quiz: ${quiz.title}` and `Completed chapter: ${chapter.title}`.
QuizNote(q) == <<"Passed quiz: ", Quiz[q].title>>
ChapterNote(c) == <<"Completed chapter: ", Chapter[c].title>>

WalletOf(u) == {w \in wallets : w.userId = u}
ResultOf(u, q) == {x \in quizResults : x.userId = u /\ x.quizId = q}
ProgressOf(u, c) == {x \in chapterProgress : x.userId = u /\ x.chapterId = c}

\* Amounts of the transactions of wallet id w that have the given type.
AmountsOf(w, type) ==
    LET idx == {i \in 1..Len(transactions) :
                    transactions[i].walletId = w /\ transactions[i].type = type}
        RECURSIVE Sum(_)
        Sum(S) == IF S = {} THEN 0
                  ELSE LET i == CHOOSE i \in S : TRUE
                       IN transactions[i].amount + Sum(S \ {i})
    IN Sum(idx)

\* EARNED transactions of user u's wallets carrying the given note.
EarnedFor(u, note) ==
    {i \in 1..Len(transactions) :
        /\ transactions[i].type = "EARNED"
        /\ transactions[i].note = note
        /\ \E w \in WalletOf(u) : w.id = transactions[i].walletId}

EarnedTotal(u) ==
    LET idx == {i \in 1..Len(transactions) :
                    /\ transactions[i].type = "EARNED"
                    /\ \E w \in WalletOf(u) : w.id = transactions[i].walletId}
        RECURSIVE Sum(_)
        Sum(S) == IF S = {} THEN 0
                  ELSE LET i == CHOOSE i \in S : TRUE
                       IN transactions[i].amount + Sum(S \ {i})
    IN Sum(idx)

BalanceOf(u) == IF WalletOf(u) = {} THEN 0 ELSE (CHOOSE w \in WalletOf(u) : TRUE).balance

----------------------------------------------------------------------------
\* Requests.

NoResp == [status |-> 0, coinsAwarded |-> 0, passed |-> FALSE, progress |-> <<>>,
           requiredChapter |-> "none"]

Idle == [pc |-> "idle", kind |-> "none", user |-> "none", unit |-> "none",
         score |-> 0, completed |-> FALSE, currentTime |-> 0,
         scoreGiven |-> TRUE,
         passed |-> FALSE, existing |-> <<>>, progress |-> <<>>,
         amount |-> 0, note |-> <<>>,
         wallet |-> 0, newWallet |-> FALSE, txTxns |-> <<>>, pre |-> <<>>,
         event |-> "none", asset |-> 0, playback |-> 0,
         resp |-> NoResp]

InFlight == {r \in Reqs : req[r].pc \notin {"idle", "done"}}
Quiescent == InFlight = {}

\* A connection takes a new request when it is not serving one.
Admit(r) == req[r].pc \in {"idle", "done"} /\ grants < MaxGrants

\* res.status(status).json(...): the handler returns; the locals are gone, the
\* request, the reward it decided on (amount, 0 when it never reached a reward
\* block) and its response stay on record until the connection is used again.
Answered(me, status, coinsAwarded, passed, progress) ==
    [Idle EXCEPT !.pc = "done", !.kind = me.kind, !.user = me.user, !.unit = me.unit,
                 !.score = me.score, !.scoreGiven = me.scoreGiven,
                 !.completed = me.completed,
                 !.currentTime = me.currentTime, !.amount = me.amount,
                 !.event = me.event, !.asset = me.asset, !.playback = me.playback,
                 !.resp = [NoResp EXCEPT !.status = status,
                                         !.coinsAwarded = coinsAwarded,
                                         !.passed = passed, !.progress = progress]]

Respond(r, status, coinsAwarded, passed, progress) ==
    /\ req' = [req EXCEPT ![r] = Answered(req[r], status, coinsAwarded, passed, progress)]
    /\ UNCHANGED grants

Goto(r, fields) == req' = [req EXCEPT ![r] = fields] /\ UNCHANGED grants

\* The handler reaches its reward block: coinsAwarded is still 0 and the three
\* awaited writes follow.
BeginGrant(r, amount, note) ==
    /\ req' = [req EXCEPT ![r] = [req[r] EXCEPT !.pc = "incUser", !.amount = amount,
                                     !.note = note,
                                     !.pre = <<coinsEarned, wallets, transactions>>]]
    /\ grants' = grants + 1

\* A chapter without a video: videoStatus has the column default, the nullable
\* columns are null (0 for the ids, <<>> for the url).
NoVideo == [videoStatus |-> "pending", muxAssetId |-> 0, muxPlaybackId |-> 0,
            videoUrl |-> <<>>]

AuxInit ==
    /\ enrolledCourses = {}
    /\ chapterVideo = [c \in ChapterIds |-> NoVideo]
    /\ assets = 0

Init ==
    /\ AuxInit
    /\ coinsEarned = [u \in Users |-> 0]
    /\ wallets = {}
    /\ transactions = <<>>
    /\ quizResults = {}
    /\ chapterProgress = {}
    /\ req = [r \in Reqs |-> Idle]
    /\ grants = 0

----------------------------------------------------------------------------
\* submitQuizResult

\* StartSubmit with line 22 reduced to `if (!quizId || score === undefined)`.
StartSubmitNoRange(r, users, quizzes, scores) ==
    /\ Admit(r)
    /\ \E u \in users, q \in quizzes, s \in scores :
          LET me == [Idle EXCEPT !.kind = "submitQuizResult", !.user = u,
                                 !.unit = q, !.score = s]
          IN req' = [req EXCEPT ![r] = [me EXCEPT !.pc = "findQuiz"]]
    /\ UNCHANGED <<store, grants, aux>>

\* A body without a score: `score === undefined` on line 22.
StartSubmitNoScore(r, users, quizzes) ==
    /\ Admit(r)
    /\ \E u \in users, q \in quizzes :
          LET me == [Idle EXCEPT !.kind = "submitQuizResult", !.user = u,
                                 !.unit = q, !.scoreGiven = FALSE]
          IN req' = [req EXCEPT ![r] = Answered(me, 400, 0, FALSE, <<>>)]
    /\ UNCHANGED <<store, grants, aux>>

StartSubmit(r, users, quizzes, scores) ==
    /\ Admit(r)
    /\ \E u \in users, q \in quizzes, s \in scores :
          LET me == [Idle EXCEPT !.kind = "submitQuizResult", !.user = u,
                                 !.unit = q, !.score = s]
          IN IF s < 0 \/ s > 100
             THEN req' = [req EXCEPT ![r] = Answered(me, 400, 0, FALSE, <<>>)]
             ELSE req' = [req EXCEPT ![r] = [me EXCEPT !.pc = "findQuiz"]]
    /\ UNCHANGED <<store, grants, aux>>

FindQuiz(r) ==
    /\ req[r].pc = "findQuiz"
    /\ IF req[r].unit \notin QuizIds
       THEN Respond(r, 404, 0, FALSE, <<>>)
       ELSE Goto(r, [req[r] EXCEPT !.pc = "findResult",
                        !.passed = (req[r].score >= Quiz[req[r].unit].passScore)])
    /\ UNCHANGED <<store, aux>>

FindResult(r) ==
    /\ req[r].pc = "findResult"
    /\ LET found == ResultOf(req[r].user, req[r].unit)
       IN IF found = {}
          THEN Goto(r, [req[r] EXCEPT !.pc = "createResult", !.existing = <<>>])
          ELSE \E x \in found :
                 Goto(r, [req[r] EXCEPT !.pc = "updateResult", !.existing = <<x>>])
    /\ UNCHANGED <<store, aux>>

\* UpdateResult without the "didn't pass before" test of line 86.
UpdateResultRegrant(r) ==
    /\ req[r].pc = "updateResult"
    /\ LET me == req[r]
           old == me.existing[1]
           quiz == Quiz[me.unit]
       IN /\ quizResults' =
                {IF x.id = old.id
                 THEN [x EXCEPT !.score = me.score, !.passed = me.passed]
                 ELSE x : x \in quizResults}
          /\ IF me.passed /\ quiz.coinValue > 0
             THEN BeginGrant(r, quiz.coinValue, QuizNote(me.unit))
             ELSE Respond(r, 200, 0, me.passed, <<>>)
    /\ UNCHANGED <<coinsEarned, wallets, transactions, chapterProgress, aux>>

\* UpdateResult with line 86 testing only the earlier result, not this score.
UpdateResultIgnoresScore(r) ==
    /\ req[r].pc = "updateResult"
    /\ LET me == req[r]
           old == me.existing[1]
           quiz == Quiz[me.unit]
       IN /\ quizResults' =
                {IF x.id = old.id
                 THEN [x EXCEPT !.score = me.score, !.passed = me.passed]
                 ELSE x : x \in quizResults}
          /\ IF ~old.passed /\ quiz.coinValue > 0
             THEN BeginGrant(r, quiz.coinValue, QuizNote(me.unit))
             ELSE Respond(r, 200, 0, me.passed, <<>>)
    /\ UNCHANGED <<coinsEarned, wallets, transactions, chapterProgress, aux>>

\* UpdateResult keeping an earlier pass: data.passed = existingResult.passed || passed.
UpdateResultStickyPassed(r) ==
    /\ req[r].pc = "updateResult"
    /\ LET me == req[r]
           old == me.existing[1]
           quiz == Quiz[me.unit]
       IN /\ quizResults' =
                {IF x.id = old.id
                 THEN [x EXCEPT !.score = me.score, !.passed = old.passed \/ me.passed]
                 ELSE x : x \in quizResults}
          /\ IF me.passed /\ ~old.passed /\ quiz.coinValue > 0
             THEN BeginGrant(r, quiz.coinValue, QuizNote(me.unit))
             ELSE Respond(r, 200, 0, me.passed, <<>>)
    /\ UNCHANGED <<coinsEarned, wallets, transactions, chapterProgress, aux>>

\* UpdateResult taking the reward back when a failing attempt replaces a pass.
UpdateResultRevoke(r) ==
    /\ req[r].pc = "updateResult"
    /\ LET me == req[r]
           old == me.existing[1]
           quiz == Quiz[me.unit]
           revoke == ~me.passed /\ old.passed
       IN /\ quizResults' =
                {IF x.id = old.id
                 THEN [x EXCEPT !.score = me.score, !.passed = me.passed]
                 ELSE x : x \in quizResults}
          /\ coinsEarned' = IF revoke
                            THEN [coinsEarned EXCEPT ![me.user] = @ - quiz.coinValue]
                            ELSE coinsEarned
          /\ wallets' = IF revoke
                        THEN {IF w.userId = me.user
                              THEN [w EXCEPT !.balance = @ - quiz.coinValue]
                              ELSE w : w \in wallets}
                        ELSE wallets
          /\ IF me.passed /\ ~old.passed /\ quiz.coinValue > 0
             THEN BeginGrant(r, quiz.coinValue, QuizNote(me.unit))
             ELSE Respond(r, 200, 0, me.passed, <<>>)
    /\ UNCHANGED <<transactions, chapterProgress, aux>>

UpdateResult(r) ==
    /\ req[r].pc = "updateResult"
    /\ LET me == req[r]
           old == me.existing[1]
           quiz == Quiz[me.unit]
       IN /\ quizResults' =
                {IF x.id = old.id
                 THEN [x EXCEPT !.score = me.score, !.passed = me.passed]
                 ELSE x : x \in quizResults}
          /\ IF me.passed /\ ~old.passed /\ quiz.coinValue > 0
             THEN BeginGrant(r, quiz.coinValue, QuizNote(me.unit))
             ELSE Respond(r, 200, 0, me.passed, <<>>)
    /\ UNCHANGED <<coinsEarned, wallets, transactions, chapterProgress, aux>>

\* CreateResult on a table without QuizResult_userId_quizId_key.
CreateResultNoUnique(r) ==
    /\ req[r].pc = "createResult"
    /\ LET me == req[r]
           quiz == Quiz[me.unit]
       IN /\ quizResults' = quizResults \cup
                {[id |-> NextId(quizResults), userId |-> me.user,
                  quizId |-> me.unit, score |-> me.score, passed |-> me.passed]}
          /\ IF me.passed /\ quiz.coinValue > 0
             THEN BeginGrant(r, quiz.coinValue, QuizNote(me.unit))
             ELSE Respond(r, 200, 0, me.passed, <<>>)
    /\ UNCHANGED <<coinsEarned, wallets, transactions, chapterProgress, aux>>

\* CreateResult with line 144 reduced to `if (passed)`.
CreateResultNoCoinTest(r) ==
    /\ req[r].pc = "createResult"
    /\ LET me == req[r]
           quiz == Quiz[me.unit]
       IN IF ResultOf(me.user, me.unit) # {}
          THEN /\ Respond(r, 500, 0, FALSE, <<>>)
               /\ UNCHANGED quizResults
          ELSE /\ quizResults' = quizResults \cup
                     {[id |-> NextId(quizResults), userId |-> me.user,
                       quizId |-> me.unit, score |-> me.score, passed |-> me.passed]}
               /\ IF me.passed
                  THEN BeginGrant(r, quiz.coinValue, QuizNote(me.unit))
                  ELSE Respond(r, 200, 0, me.passed, <<>>)
    /\ UNCHANGED <<coinsEarned, wallets, transactions, chapterProgress, aux>>

CreateResult(r) ==
    /\ req[r].pc = "createResult"
    /\ LET me == req[r]
           quiz == Quiz[me.unit]
       IN IF ResultOf(me.user, me.unit) # {} \/ me.user \notin Users
          THEN \* QuizResult_userId_quizId_key or QuizResult_userId_fkey: the insert
               \* throws, the catch answers 500
               /\ Respond(r, 500, 0, FALSE, <<>>)
               /\ UNCHANGED quizResults
          ELSE /\ quizResults' = quizResults \cup
                     {[id |-> NextId(quizResults), userId |-> me.user,
                       quizId |-> me.unit, score |-> me.score, passed |-> me.passed]}
               /\ IF me.passed /\ quiz.coinValue > 0
                  THEN BeginGrant(r, quiz.coinValue, QuizNote(me.unit))
                  ELSE Respond(r, 200, 0, me.passed, <<>>)
    /\ UNCHANGED <<coinsEarned, wallets, transactions, chapterProgress, aux>>

----------------------------------------------------------------------------
\* updateVideoProgress

StartProgress(r, users, chapters, times, flags) ==
    /\ Admit(r)
    /\ \E u \in users, c \in chapters, t \in times, done \in flags :
          LET me == [Idle EXCEPT !.kind = "updateVideoProgress", !.user = u,
                                 !.unit = c, !.currentTime = t, !.completed = done]
          IN IF t = 0
             THEN req' = [req EXCEPT ![r] = Answered(me, 400, 0, FALSE, <<>>)]
             ELSE req' = [req EXCEPT ![r] = [me EXCEPT !.pc = "findChapter"]]
    /\ UNCHANGED <<store, grants, aux>>

FindChapter(r) ==
    /\ req[r].pc = "findChapter"
    /\ IF req[r].unit \in ChapterIds /\ Chapter[req[r].unit].isPublished
       THEN Goto(r, [req[r] EXCEPT !.pc = "upsertProgress"])
       ELSE Respond(r, 404, 0, FALSE, <<>>)
    /\ UNCHANGED <<store, aux>>

\* prisma.chapterProgress.upsert with update {currentTime, watchedAt} and
\* create {userId, chapterId, currentTime, watchedAt}: completed is not written,
\* a created row takes the column default, false.
UpsertProgress(r) ==
    /\ req[r].pc = "upsertProgress"
    /\ LET me == req[r]
           found == ProgressOf(me.user, me.unit)
           row == IF found = {}
                  THEN [id |-> NextId(chapterProgress), userId |-> me.user,
                        chapterId |-> me.unit, completed |-> FALSE,
                        currentTime |-> me.currentTime]
                  ELSE [(CHOOSE x \in found : TRUE) EXCEPT !.currentTime = me.currentTime]
       IN IF me.user \notin Users
          THEN \* chapterProgress_userId_fkey: the upsert throws, the catch answers 500
               /\ Respond(r, 500, 0, FALSE, <<>>)
               /\ UNCHANGED chapterProgress
          ELSE /\ chapterProgress' = (chapterProgress \ found) \cup {row}
               /\ IF me.completed /\ Chapter[me.unit].coinValue > 0
                  THEN Goto(r, [me EXCEPT !.pc = "findProgress", !.progress = <<row>>])
                  ELSE Respond(r, 200, 0, FALSE, <<row>>)
    /\ UNCHANGED <<coinsEarned, wallets, transactions, quizResults, aux>>

FindProgress(r) ==
    /\ req[r].pc = "findProgress"
    /\ LET me == req[r]
           found == ProgressOf(me.user, me.unit)
       IN IF \E x \in found : x.completed
          THEN Respond(r, 200, 0, FALSE, me.progress)
          ELSE BeginGrant(r, Chapter[me.unit].coinValue, ChapterNote(me.unit))
    /\ UNCHANGED <<store, aux>>

----------------------------------------------------------------------------
\* markChapterAsWatched

StartWatch(r, users, chapters) ==
    /\ Admit(r)
    /\ \E u \in users, c \in chapters :
          req' = [req EXCEPT ![r] =
                    [Idle EXCEPT !.pc = "watchFindChapter", !.kind = "markChapterAsWatched",
                                 !.user = u, !.unit = c, !.completed = TRUE]]
    /\ UNCHANGED <<store, grants, aux>>

WatchFindChapter(r) ==
    /\ req[r].pc = "watchFindChapter"
    /\ IF req[r].unit \in ChapterIds /\ Chapter[req[r].unit].isPublished
       THEN Goto(r, [req[r] EXCEPT !.pc = "watchUpsert"])
       ELSE Respond(r, 404, 0, FALSE, <<>>)
    /\ UNCHANGED <<store, aux>>

\* The upsert writes completed: true on both branches; the reward block that
\* followed it is commented out.
WatchUpsert(r) ==
    /\ req[r].pc = "watchUpsert"
    /\ LET me == req[r]
           found == ProgressOf(me.user, me.unit)
           row == IF found = {}
                  THEN [id |-> NextId(chapterProgress), userId |-> me.user,
                        chapterId |-> me.unit, completed |-> TRUE,
                        currentTime |-> me.currentTime]
                  ELSE [(CHOOSE x \in found : TRUE) EXCEPT !.currentTime = me.currentTime,
                                                          !.completed = TRUE]
       IN IF me.user \notin Users
          THEN \* chapterProgress_userId_fkey: the upsert throws, the catch answers 500
               /\ Respond(r, 500, 0, FALSE, <<>>)
               /\ UNCHANGED chapterProgress
          ELSE /\ chapterProgress' = (chapterProgress \ found) \cup {row}
               /\ Respond(r, 200, 0, FALSE, <<row>>)
    /\ UNCHANGED <<coinsEarned, wallets, transactions, quizResults, aux>>

----------------------------------------------------------------------------
\* The reward block, written out three times in the source with the same
\* statements (quizController.ts 87-130 and 145-188, userProgressController.ts
\* 357-400).

IncUser(r) ==
    /\ req[r].pc = "incUser"
    /\ coinsEarned' = [coinsEarned EXCEPT ![req[r].user] = @ + req[r].amount]
    /\ Goto(r, [req[r] EXCEPT !.pc = "txFindWallet"])
    /\ UNCHANGED <<wallets, transactions, quizResults, chapterProgress, aux>>

\* TxFindWallet with tx.wallet.findFirst() in place of findUnique({ where: { userId } }).
TxFindWalletAny(r) ==
    /\ req[r].pc = "txFindWallet"
    /\ IF wallets = {}
       THEN Goto(r, [req[r] EXCEPT !.pc = "txCreateWallet"])
       ELSE \E w \in wallets :
              Goto(r, [req[r] EXCEPT !.pc = "txCreateTxn", !.wallet = w.id])
    /\ UNCHANGED <<store, aux>>

TxFindWallet(r) ==
    /\ req[r].pc = "txFindWallet"
    /\ LET found == WalletOf(req[r].user)
       IN IF found = {}
          THEN Goto(r, [req[r] EXCEPT !.pc = "txCreateWallet"])
          ELSE \E w \in found :
                 Goto(r, [req[r] EXCEPT !.pc = "txCreateTxn", !.wallet = w.id])
    /\ UNCHANGED <<store, aux>>

\* Ids of wallets inserted by transactions that have not committed yet.
PendingWallets == {[id |-> req[o].wallet, userId |-> req[o].user, balance |-> 0] :
                      o \in {o \in Reqs : req[o].newWallet}}

\* TxCreateWallet on a table without Wallet_userId_key.
TxCreateWalletNoUnique(r) ==
    /\ req[r].pc = "txCreateWallet"
    /\ Goto(r, [req[r] EXCEPT !.pc = "txCreateTxn", !.newWallet = TRUE,
                    !.wallet = NextId(wallets \cup PendingWallets)])
    /\ UNCHANGED <<store, aux>>

TxCreateWallet(r) ==
    /\ req[r].pc = "txCreateWallet"
    \* an uncommitted insert of the same unique key makes this insert wait
    /\ ~\E o \in Reqs \ {r} : req[o].newWallet /\ req[o].user = req[r].user
    /\ IF WalletOf(req[r].user) # {}
       THEN \* Wallet_userId_key: the transaction rolls back, the catch answers 500
            Respond(r, 500, 0, FALSE, <<>>)
       ELSE Goto(r, [req[r] EXCEPT !.pc = "txCreateTxn", !.newWallet = TRUE,
                        !.wallet = NextId(wallets \cup PendingWallets)])
    /\ UNCHANGED <<store, aux>>

\* TxCreateTxn issued on the global client instead of tx: the row is written at once,
\* outside the transaction.
TxCreateTxnOutsideTx(r) ==
    /\ req[r].pc = "txCreateTxn"
    /\ transactions' = Append(transactions,
                              [walletId |-> req[r].wallet, type |-> "EARNED",
                               amount |-> req[r].amount, note |-> req[r].note])
    /\ Goto(r, [req[r] EXCEPT !.pc = "txUpdateWallet"])
    /\ UNCHANGED <<coinsEarned, wallets, quizResults, chapterProgress, aux>>

TxCreateTxn(r) ==
    /\ req[r].pc = "txCreateTxn"
    /\ Goto(r, [req[r] EXCEPT !.pc = "txUpdateWallet",
                   !.txTxns = Append(@, [walletId |-> req[r].wallet, type |-> "EARNED",
                                         amount |-> req[r].amount, note |-> req[r].note])])
    /\ UNCHANGED <<store, aux>>

\* TxUpdateWallet with data: { balance: wallet.balance + coinValue }, wallet being
\* the row as the request found it when it started, in place of { increment }.
TxUpdateWalletOverwrite(r) ==
    /\ req[r].pc = "txUpdateWallet"
    /\ LET me == req[r]
           rows == IF me.newWallet
                   THEN wallets \cup {[id |-> me.wallet, userId |-> me.user, balance |-> 0]}
                   ELSE wallets
           read == {w \in me.pre[2] : w.id = me.wallet}
           was == IF read = {} THEN 0 ELSE (CHOOSE w \in read : TRUE).balance
       IN /\ wallets' = {IF w.id = me.wallet
                         THEN [w EXCEPT !.balance = was + me.amount]
                         ELSE w : w \in rows}
          /\ transactions' = transactions \o me.txTxns
          /\ Respond(r, 200, me.amount, me.passed, me.progress)
    /\ UNCHANGED <<coinsEarned, quizResults, chapterProgress, aux>>

\* tx.wallet.update, the last statement of the callback: the transaction commits.
TxUpdateWallet(r) ==
    /\ req[r].pc = "txUpdateWallet"
    /\ LET me == req[r]
           rows == IF me.newWallet
                   THEN wallets \cup {[id |-> me.wallet, userId |-> me.user, balance |-> 0]}
                   ELSE wallets
       IN /\ wallets' = {IF w.id = me.wallet
                         THEN [w EXCEPT !.balance = @ + me.amount]
                         ELSE w : w \in rows}
          /\ transactions' = transactions \o me.txTxns
          /\ Respond(r, 200, me.amount, me.passed, me.progress)
    /\ UNCHANGED <<coinsEarned, quizResults, chapterProgress, aux>>

----------------------------------------------------------------------------
\* The store rejects the operation a request is waiting on (connectivity, timeout):
\* the await throws, an open transaction is rolled back, the catch answers 500.

\* StoreFail with the reward block wrapped in its own try/catch that logs the
\* error and lets the handler go on to coinsAwarded = ... and res.json.
StoreFailSwallowed(r) ==
    /\ r \in InFlight
    /\ IF req[r].pre # <<>>
       THEN Respond(r, 200, req[r].amount, req[r].passed, req[r].progress)
       ELSE Respond(r, 500, 0, FALSE, <<>>)
    /\ UNCHANGED <<store, aux>>

\* StoreFail with a catch that compensates by deleting the newest Transaction.
StoreFailCompensate(r) ==
    /\ r \in InFlight
    /\ Respond(r, 500, 0, FALSE, <<>>)
    /\ transactions' = IF transactions = <<>> THEN transactions
                       ELSE SubSeq(transactions, 1, Len(transactions) - 1)
    /\ UNCHANGED <<coinsEarned, wallets, quizResults, chapterProgress, aux>>

StoreFail(r) ==
    /\ r \in InFlight
    /\ Respond(r, 500, 0, FALSE, <<>>)
    /\ UNCHANGED <<store, aux>>

----------------------------------------------------------------------------
\* uploadVideoToChapter (admin): chapter lookup, upload of the file to S3,
\* Video.assets.create, then the chapter row is pointed at the new asset.

\* Mux creates at most MaxAssets assets.
MaxAssets == 2

StartUpload(r, chapters, files) ==
    /\ req[r].pc \in {"idle", "done"}
    /\ assets < MaxAssets
    /\ \E c \in chapters, file \in files :
          LET me == [Idle EXCEPT !.kind = "uploadVideoToChapter", !.unit = c]
          IN IF ~file
             THEN req' = [req EXCEPT ![r] = Answered(me, 400, 0, FALSE, <<>>)]
             ELSE req' = [req EXCEPT ![r] = [me EXCEPT !.pc = "upFindChapter"]]
    /\ UNCHANGED <<store, grants, aux>>

UpFindChapter(r) ==
    /\ req[r].pc = "upFindChapter"
    /\ IF req[r].unit \in ChapterIds
       THEN Goto(r, [req[r] EXCEPT !.pc = "upStoreFile"])
       ELSE Respond(r, 404, 0, FALSE, <<>>)
    /\ UNCHANGED <<store, aux>>

\* uploadLocalVideoToS3: it succeeds, or it throws and the handler answers 500.
UpStoreFile(r) ==
    /\ req[r].pc = "upStoreFile"
    /\ \/ Goto(r, [req[r] EXCEPT !.pc = "upCreateAsset"])
       \/ Respond(r, 500, 0, FALSE, <<>>)
    /\ UNCHANGED <<store, aux>>

\* Video.assets.create: Mux hands out a fresh asset id.
UpCreateAsset(r) ==
    /\ req[r].pc = "upCreateAsset"
    /\ assets' = assets + 1
    /\ Goto(r, [req[r] EXCEPT !.pc = "upUpdateChapter", !.asset = assets + 1])
    /\ UNCHANGED <<store, enrolledCourses, chapterVideo>>

UpUpdateChapter(r) ==
    /\ req[r].pc = "upUpdateChapter"
    /\ chapterVideo' = [chapterVideo EXCEPT ![req[r].unit] =
                           [@ EXCEPT !.muxAssetId = req[r].asset,
                                     !.videoStatus = "uploading"]]
    /\ Respond(r, 201, 0, FALSE, <<>>)
    /\ UNCHANGED <<store, enrolledCourses, assets>>

----------------------------------------------------------------------------
\* handleMuxWebhook: Mux reports on an asset it has created.  The handlers
\* look the chapter up by muxAssetId and then update it by its id; whatever
\* they throw they catch themselves, so the webhook answers 200.

HookTypes == {"video.asset.ready", "video.asset.errored", "video.asset.deleted"}

\* The public playback id of asset a; the stream url made from a playback id.
PlaybackOf(a) == 10 + a
StreamUrl(pb) == <<"https://stream.mux.com/", pb, ".m3u8">>

StartHook(r, types, public) ==
    /\ req[r].pc \in {"idle", "done"}
    /\ \E t \in types, a \in 1..assets, pub \in public :
          LET me == [Idle EXCEPT !.kind = "handleMuxWebhook", !.event = t, !.asset = a,
                                 !.playback = IF pub THEN PlaybackOf(a) ELSE 0]
          IN IF t \in HookTypes
             THEN req' = [req EXCEPT ![r] = [me EXCEPT !.pc = "hookFind"]]
             ELSE req' = [req EXCEPT ![r] = Answered(me, 200, 0, FALSE, <<>>)]
    /\ UNCHANGED <<store, grants, aux>>

\* HookFind with findFirst() not filtered by muxAssetId.
HookFindAnyChapter(r) ==
    /\ req[r].pc = "hookFind"
    /\ IF req[r].event = "video.asset.ready" /\ req[r].playback = 0
       THEN Respond(r, 200, 0, FALSE, <<>>)
       ELSE \E c \in ChapterIds :
              Goto(r, [req[r] EXCEPT !.pc = "hookUpdate", !.unit = c])
    /\ UNCHANGED <<store, aux>>

\* prisma.chapter.findFirst({ where: { muxAssetId } })
HookFind(r) ==
    /\ req[r].pc = "hookFind"
    /\ LET found == {c \in ChapterIds : chapterVideo[c].muxAssetId = req[r].asset}
       IN IF found = {} \/ (req[r].event = "video.asset.ready" /\ req[r].playback = 0)
          THEN Respond(r, 200, 0, FALSE, <<>>)
          ELSE \E c \in found :
                 Goto(r, [req[r] EXCEPT !.pc = "hookUpdate", !.unit = c])
    /\ UNCHANGED <<store, aux>>

\* prisma.chapter.update({ where: { id: chapter.id }, ... }) of the three handlers.
HookUpdate(r) ==
    /\ req[r].pc = "hookUpdate"
    /\ LET me == req[r]
           row == CASE me.event = "video.asset.ready" ->
                         [chapterVideo[me.unit] EXCEPT
                             !.muxPlaybackId = me.playback,
                             !.videoStatus = "ready",
                             !.videoUrl = StreamUrl(me.playback)]
                    [] me.event = "video.asset.errored" ->
                         [NoVideo EXCEPT !.videoStatus = "error"]
                    [] OTHER -> NoVideo
       IN chapterVideo' = [chapterVideo EXCEPT ![me.unit] = row]
    /\ Respond(r, 200, 0, FALSE, <<>>)
    /\ UNCHANGED <<store, enrolledCourses, assets>>

----------------------------------------------------------------------------
\* deleteVideo (admin)

StartDelete(r, chapters) ==
    /\ req[r].pc \in {"idle", "done"}
    /\ \E c \in chapters :
          req' = [req EXCEPT ![r] =
                    [Idle EXCEPT !.pc = "delFindChapter", !.kind = "deleteVideo",
                                 !.unit = c]]
    /\ UNCHANGED <<store, grants, aux>>

DelFindChapter(r) ==
    /\ req[r].pc = "delFindChapter"
    /\ IF req[r].unit \notin ChapterIds
       THEN Respond(r, 404, 0, FALSE, <<>>)
       ELSE IF chapterVideo[req[r].unit].muxAssetId # 0
       THEN Goto(r, [req[r] EXCEPT !.pc = "delMuxAsset",
                        !.asset = chapterVideo[req[r].unit].muxAssetId])
       ELSE Goto(r, [req[r] EXCEPT !.pc = "delUpdateChapter"])
    /\ UNCHANGED <<store, aux>>

\* Video.assets.delete: an error is logged and the handler goes on.
DelMuxAsset(r) ==
    /\ req[r].pc = "delMuxAsset"
    /\ Goto(r, [req[r] EXCEPT !.pc = "delUpdateChapter"])
    /\ UNCHANGED <<store, aux>>

DelUpdateChapter(r) ==
    /\ req[r].pc = "delUpdateChapter"
    /\ chapterVideo' = [chapterVideo EXCEPT ![req[r].unit] = NoVideo]
    /\ Respond(r, 200, 0, FALSE, <<>>)
    /\ UNCHANGED <<store, enrolledCourses, assets>>

UploadStep(r) ==
    \/ UpFindChapter(r)
    \/ UpStoreFile(r)
    \/ UpCreateAsset(r)
    \/ UpUpdateChapter(r)

HookStep(r) ==
    \/ HookFind(r)
    \/ HookUpdate(r)

DeleteStep(r) ==
    \/ DelFindChapter(r)
    \/ DelMuxAsset(r)
    \/ DelUpdateChapter(r)

----------------------------------------------------------------------------
\* enrollInCourse and unenrollFromCourse

EnrollmentOf(u, k) == {e \in enrolledCourses : e.userId = u /\ e.courseId = k}

StartEnroll(r, users, courses) ==
    /\ req[r].pc \in {"idle", "done"}
    /\ \E u \in users, k \in courses :
          req' = [req EXCEPT ![r] =
                    [Idle EXCEPT !.pc = "enFindCourse", !.kind = "enrollInCourse",
                                 !.user = u, !.unit = k]]
    /\ UNCHANGED <<store, grants, aux>>

EnFindCourse(r) ==
    /\ req[r].pc = "enFindCourse"
    /\ IF req[r].unit \in CourseIds /\ Course[req[r].unit].isPublished
       THEN Goto(r, [req[r] EXCEPT !.pc = "enFindEnrollment"])
       ELSE Respond(r, 404, 0, FALSE, <<>>)
    /\ UNCHANGED <<store, aux>>

EnFindEnrollment(r) ==
    /\ req[r].pc = "enFindEnrollment"
    /\ IF EnrollmentOf(req[r].user, req[r].unit) # {}
       THEN Respond(r, 400, 0, FALSE, <<>>)
       ELSE Goto(r, [req[r] EXCEPT !.pc = "enCreate"])
    /\ UNCHANGED <<store, aux>>

\* prisma.enrolledCourse.create: the table has a primary key on id and foreign
\* keys to User and Course, no unique index on (userId, courseId).
EnCreate(r) ==
    /\ req[r].pc = "enCreate"
    /\ IF req[r].user \notin Users
       THEN /\ Respond(r, 500, 0, FALSE, <<>>)
            /\ UNCHANGED enrolledCourses
       ELSE /\ enrolledCourses' = enrolledCourses \cup
                  {[id |-> NextId(enrolledCourses), userId |-> req[r].user,
                    courseId |-> req[r].unit]}
            /\ Respond(r, 201, 0, FALSE, <<>>)
    /\ UNCHANGED <<store, chapterVideo, assets>>

StartUnenroll(r, users, courses) ==
    /\ req[r].pc \in {"idle", "done"}
    /\ \E u \in users, k \in courses :
          req' = [req EXCEPT ![r] =
                    [Idle EXCEPT !.pc = "unFindEnrollment", !.kind = "unenrollFromCourse",
                                 !.user = u, !.unit = k]]
    /\ UNCHANGED <<store, grants, aux>>

\* findFirst returns one of the matching rows; the handler keeps its id.
UnFindEnrollment(r) ==
    /\ req[r].pc = "unFindEnrollment"
    /\ LET found == EnrollmentOf(req[r].user, req[r].unit)
       IN IF found = {}
          THEN Respond(r, 404, 0, FALSE, <<>>)
          ELSE \E e \in found :
                 Goto(r, [req[r] EXCEPT !.pc = "unDelete", !.wallet = e.id])
    /\ UNCHANGED <<store, aux>>

\* prisma.enrolledCourse.delete({ where: { id } }) throws when the row is gone.
UnDelete(r) ==
    /\ req[r].pc = "unDelete"
    /\ IF \E e \in enrolledCourses : e.id = req[r].wallet
       THEN /\ enrolledCourses' = {e \in enrolledCourses : e.id # req[r].wallet}
            /\ Respond(r, 200, 0, FALSE, <<>>)
       ELSE /\ Respond(r, 500, 0, FALSE, <<>>)
            /\ UNCHANGED enrolledCourses
    /\ UNCHANGED <<store, chapterVideo, assets>>

EnrollStep(r) ==
    \/ EnFindCourse(r)
    \/ EnFindEnrollment(r)
    \/ EnCreate(r)

UnenrollStep(r) ==
    \/ UnFindEnrollment(r)
    \/ UnDelete(r)

----------------------------------------------------------------------------
\* getChapterDetails

\* chapter.course.chapters cut before the chapter: the published chapters of its
\* course that come earlier in `orderBy: { order: "asc" }`.
PreviousChapters(c) ==
    {p \in ChapterIds : /\ Chapter[p].isPublished
                        /\ Chapter[p].courseId = Chapter[c].courseId
                        /\ Chapter[p].order < Chapter[c].order}

\* previousChapters.find(...): the first of them, in that order, in a set.
FirstByOrder(S) == CHOOSE p \in S : \A q \in S : Chapter[p].order <= Chapter[q].order

StartDetails(r, users, chapters) ==
    /\ req[r].pc \in {"idle", "done"}
    /\ \E u \in users, c \in chapters :
          req' = [req EXCEPT ![r] =
                    [Idle EXCEPT !.pc = "gdFindChapter", !.kind = "getChapterDetails",
                                 !.user = u, !.unit = c]]
    /\ UNCHANGED <<store, grants, aux>>

GdFindChapter(r) ==
    /\ req[r].pc = "gdFindChapter"
    /\ IF req[r].unit \in ChapterIds /\ Chapter[req[r].unit].isPublished
       THEN Goto(r, [req[r] EXCEPT !.pc = "gdFindEnrollment"])
       ELSE Respond(r, 404, 0, FALSE, <<>>)
    /\ UNCHANGED <<store, aux>>

GdFindEnrollment(r) ==
    /\ req[r].pc = "gdFindEnrollment"
    /\ IF EnrollmentOf(req[r].user, Chapter[req[r].unit].courseId) = {}
       THEN Respond(r, 403, 0, FALSE, <<>>)
       ELSE IF PreviousChapters(req[r].unit) # {}
       THEN Goto(r, [req[r] EXCEPT !.pc = "gdFindPrevious"])
       ELSE Goto(r, [req[r] EXCEPT !.pc = "gdFindProgress"])
    /\ UNCHANGED <<store, aux>>

\* GdFindPrevious with the findMany filter `completed: true` left out.
GdFindPreviousAnyProgress(r) ==
    /\ req[r].pc = "gdFindPrevious"
    /\ LET me == req[r]
           previousChapters == PreviousChapters(me.unit)
           previousProgress == {x \in chapterProgress :
                                   /\ x.userId = me.user
                                   /\ x.chapterId \in previousChapters}
           missing == {p \in previousChapters :
                          ~\E x \in previousProgress : x.chapterId = p}
       IN IF Cardinality(previousProgress) < Cardinality(previousChapters)
          THEN /\ req' = [req EXCEPT ![r] =
                            [Answered(me, 403, 0, FALSE, <<>>) EXCEPT
                                !.resp.requiredChapter = FirstByOrder(missing)]]
               /\ UNCHANGED grants
          ELSE Goto(r, [me EXCEPT !.pc = "gdFindProgress"])
    /\ UNCHANGED <<store, aux>>

GdFindPrevious(r) ==
    /\ req[r].pc = "gdFindPrevious"
    /\ LET me == req[r]
           previousChapters == PreviousChapters(me.unit)
           previousProgress == {x \in chapterProgress :
                                   /\ x.userId = me.user
                                   /\ x.chapterId \in previousChapters
                                   /\ x.completed}
           missing == {p \in previousChapters :
                          ~\E x \in previousProgress : x.chapterId = p}
       IN IF Cardinality(previousProgress) < Cardinality(previousChapters)
          THEN /\ req' = [req EXCEPT ![r] =
                            [Answered(me, 403, 0, FALSE, <<>>) EXCEPT
                                !.resp.requiredChapter = FirstByOrder(missing)]]
               /\ UNCHANGED grants
          ELSE Goto(r, [me EXCEPT !.pc = "gdFindProgress"])
    /\ UNCHANGED <<store, aux>>

GdFindProgress(r) ==
    /\ req[r].pc = "gdFindProgress"
    /\ LET found == ProgressOf(req[r].user, req[r].unit)
       IN Goto(r, [req[r] EXCEPT !.pc = "gdFindResults",
                      !.progress = IF found = {} THEN <<>>
                                   ELSE <<CHOOSE x \in found : TRUE>>])
    /\ UNCHANGED <<store, aux>>

\* prisma.quizResult.findMany, then res.json with the chapter's content.
GdFindResults(r) ==
    /\ req[r].pc = "gdFindResults"
    /\ Respond(r, 200, 0, FALSE, req[r].progress)
    /\ UNCHANGED <<store, aux>>

DetailsStep(r) ==
    \/ GdFindChapter(r)
    \/ GdFindEnrollment(r)
    \/ GdFindPrevious(r)
    \/ GdFindProgress(r)
    \/ GdFindResults(r)

SubmitStep(r) ==
    \/ FindQuiz(r)
    \/ FindResult(r)
    \/ UpdateResult(r)
    \/ CreateResult(r)

GrantStep(r) ==
    \/ IncUser(r)
    \/ TxFindWallet(r)
    \/ TxCreateWallet(r)
    \/ TxCreateTxn(r)
    \/ TxUpdateWallet(r)

ProgressStep(r) ==
    \/ FindChapter(r)
    \/ UpsertProgress(r)
    \/ FindProgress(r)

WatchStep(r) ==
    \/ WatchFindChapter(r)
    \/ WatchUpsert(r)

Step(r) == SubmitStep(r) \/ ProgressStep(r) \/ WatchStep(r) \/ GrantStep(r)

\* Requests of one user on two connections, in any interleaving, with store failures.
Next ==
    \E r \in Reqs :
        \/ StartSubmit(r, {"u1"}, CoreQuizIds, Scores)
        \/ StartProgress(r, {"u1"}, CoreChapterIds, Times, BOOLEAN)
        \/ StartWatch(r, {"u1"}, CoreChapterIds)
        \/ Step(r)
        \/ StoreFail(r)

Spec == Init /\ [][Next]_vars

\* One connection, one request after the other, and a store that never fails.
NextSeq ==
    \/ StartSubmit("r1", Users, CoreQuizIds, Scores)
    \/ StartProgress("r1", Users, CoreChapterIds, Times, BOOLEAN)
    \/ StartWatch("r1", Users, CoreChapterIds)
    \/ Step("r1")

SpecSeq == Init /\ [][NextSeq]_vars

\* One connection, one request after the other, and a store that may fail.
NextSeqFail == NextSeq \/ StoreFail("r1")

SpecSeqFail == Init /\ [][NextSeqFail]_vars

\* Successive submissions that all carry passing scores.
PassingScores == {s \in Scores : \A q \in QuizIds : s >= Quiz[q].passScore}

NextPassSeq ==
    \/ StartSubmit("r1", Users, CoreQuizIds, PassingScores)
    \/ SubmitStep("r1")
    \/ GrantStep("r1")

SpecPassSeq == Init /\ [][NextPassSeq]_vars

\* Successive updateVideoProgress calls with completed = true.
NextProgressSeq ==
    \/ StartProgress("r1", Users, CoreChapterIds, {15, 30}, {TRUE})
    \/ ProgressStep("r1")
    \/ GrantStep("r1")

SpecProgressSeq == Init /\ [][NextProgressSeq]_vars

\* Two passing submissions for the same (user, quiz) in flight together, the
\* user not having passed before: no QuizResult row, or one with passed = false
\* left by an earlier failing submission.
InitRace ==
    /\ AuxInit
    /\ coinsEarned = [u \in Users |-> 0]
    /\ wallets = {}
    /\ transactions = <<>>
    /\ chapterProgress = {}
    /\ grants = 0
    /\ quizResults \in {{}, {[id |-> 1, userId |-> "u1", quizId |-> "q1",
                               score |-> 60, passed |-> FALSE]}}
    /\ \E s1 \in PassingScores, s2 \in PassingScores :
          req = [r \in Reqs |->
                    [Idle EXCEPT !.pc = "findQuiz", !.kind = "submitQuizResult",
                                 !.user = "u1", !.unit = "q1",
                                 !.score = IF r = "r1" THEN s1 ELSE s2]]

NextRace == \E r \in Reqs : SubmitStep(r) \/ GrantStep(r)

SpecRace == InitRace /\ [][NextRace]_vars

\* A passing submission on r1 against a store that may fail; when it is answered
\* 500 the client sends the same request again, on r2, and the store works.
Resubmit(r, o) ==
    /\ req[r].pc = "idle"
    /\ req[o].pc = "done"
    /\ req[o].resp.status = 500
    /\ req' = [req EXCEPT ![r] = [Idle EXCEPT !.pc = "findQuiz", !.kind = req[o].kind,
                                    !.user = req[o].user, !.unit = req[o].unit,
                                    !.score = req[o].score]]
    /\ UNCHANGED <<store, grants, aux>>

NextRetry ==
    \/ req["r1"].pc = "idle" /\ StartSubmit("r1", Users, CoreQuizIds, PassingScores)
    \/ SubmitStep("r1")
    \/ GrantStep("r1")
    \/ StoreFail("r1")
    \/ Resubmit("r2", "r1")
    \/ SubmitStep("r2")
    \/ GrantStep("r2")

SpecRetry == Init /\ [][NextRetry]_vars

\* Successive submissions, passing and failing, to a rewarded quiz and to a quiz
\* with coinValue = 0.
NextQuizSeq ==
    \/ StartSubmit("r1", {"u1"}, {"q1", "q0"}, Scores)
    \/ SubmitStep("r1")
    \/ GrantStep("r1")

SpecQuizSeq == Init /\ [][NextQuizSeq]_vars

\* A user who owns a wallet (rewarded for q2 before) has a passing submission
\* for q1 and a completing progress update for c1 in flight together.
InitTwoGrants ==
    /\ AuxInit
    /\ coinsEarned = [u \in Users |-> IF u = "u1" THEN Quiz["q2"].coinValue ELSE 0]
    /\ wallets = {[id |-> 1, userId |-> "u1", balance |-> Quiz["q2"].coinValue]}
    /\ transactions = <<[walletId |-> 1, type |-> "EARNED",
                         amount |-> Quiz["q2"].coinValue, note |-> QuizNote("q2")]>>
    /\ chapterProgress = {}
    /\ grants = 1
    /\ \E s0 \in Scores, s1 \in PassingScores :
          /\ quizResults \in
                {{[id |-> 1, userId |-> "u1", quizId |-> "q2", score |-> 80,
                   passed |-> TRUE]} \cup prior :
                 prior \in {{}, {[id |-> 2, userId |-> "u1", quizId |-> "q1",
                                  score |-> s0, passed |-> FALSE]}}}
          /\ s0 < Quiz["q1"].passScore
          /\ req = [r \in Reqs |->
                      IF r = "r1"
                      THEN [Idle EXCEPT !.pc = "findQuiz", !.kind = "submitQuizResult",
                                        !.user = "u1", !.unit = "q1", !.score = s1]
                      ELSE [Idle EXCEPT !.pc = "findChapter",
                                        !.kind = "updateVideoProgress",
                                        !.user = "u1", !.unit = "c1",
                                        !.currentTime = 15, !.completed = TRUE]]

NextTwoGrants ==
    \E r \in Reqs :
        \/ SubmitStep(r)
        \/ ProgressStep(r)
        \/ IncUser(r)
        \/ TxFindWallet(r)
        \/ TxCreateTxn(r)
        \/ TxUpdateWallet(r)

SpecTwoGrants == InitTwoGrants /\ [][NextTwoGrants]_vars

\* Successive submissions whose body carries no score, a score outside
\* [0, 100], one on the edge of the range, or one inside it.
BodyScores == {0 - 1, 0, 60, 80, 100, 101}

NextValidate ==
    \/ StartSubmit("r1", {"u1"}, CoreQuizIds, BodyScores)
    \/ StartSubmitNoScore("r1", {"u1"}, CoreQuizIds)
    \/ SubmitStep("r1")
    \/ GrantStep("r1")

SpecValidate == Init /\ [][NextValidate]_vars

\* Requests naming a quiz or chapter that does not exist, a chapter that is not
\* published, or carrying a token whose subject (with email and name in the
\* token, which requireAuth accepts without a lookup) has no User row.
TokenUsers == {"u1", "u9"}

NextNotFound ==
    \/ StartSubmit("r1", TokenUsers, {"q1", "q9"}, {80})
    \/ StartProgress("r1", {"u1"}, {"c1", "c2", "c9"}, Times, {TRUE})
    \/ StartWatch("r1", {"u1"}, {"c1", "c2", "c9"})
    \/ Step("r1")

SpecNotFound == Init /\ [][NextNotFound]_vars

\* Passing submissions of one user on two connections, to a rewarded quiz and to
\* a quiz whose coinValue an admin has set below zero (updateQuiz stores the
\* value it is given).
NextCoinSign ==
    \E r \in Reqs :
        \/ StartSubmit(r, {"u1"}, {"q1", "qn"}, {80})
        \/ SubmitStep(r)
        \/ GrantStep(r)

SpecCoinSign == Init /\ [][NextCoinSign]_vars

\* The video of one chapter: admin uploads and deletions on one connection, in
\* sequence with the webhooks Mux sends for the assets it has created.
NextVideoSeq ==
    \/ StartUpload("r1", {"c1", "c9"}, BOOLEAN)
    \/ StartHook("r1", HookTypes \cup {"video.asset.created"}, BOOLEAN)
    \/ StartDelete("r1", {"c1", "c9"})
    \/ UploadStep("r1")
    \/ HookStep("r1")
    \/ DeleteStep("r1")

SpecVideoSeq == Init /\ [][NextVideoSeq]_vars

\* Uploads and deletions for two chapters on one connection while Mux delivers
\* its webhooks on the other.
NextVideo ==
    \/ StartUpload("r1", {"c1", "c3"}, {TRUE})
    \/ StartDelete("r1", {"c1", "c3"})
    \/ UploadStep("r1")
    \/ DeleteStep("r1")
    \/ StartHook("r2", HookTypes, BOOLEAN)
    \/ HookStep("r2")

SpecVideo == Init /\ [][NextVideo]_vars

\* A user without a wallet has passing first submissions for two quizzes in
\* flight together.
InitFirstGrants ==
    /\ AuxInit
    /\ coinsEarned = [u \in Users |-> 0]
    /\ wallets = {}
    /\ transactions = <<>>
    /\ quizResults = {}
    /\ chapterProgress = {}
    /\ grants = 0
    /\ \E s1 \in PassingScores, s2 \in PassingScores :
          req = [r \in Reqs |->
                    [Idle EXCEPT !.pc = "findQuiz", !.kind = "submitQuizResult",
                                 !.user = "u1",
                                 !.unit = IF r = "r1" THEN "q1" ELSE "q2",
                                 !.score = IF r = "r1" THEN s1 ELSE s2]]

NextFirstGrants ==
    \E r \in Reqs :
        \/ FindQuiz(r)
        \/ FindResult(r)
        \/ CreateResult(r)
        \/ GrantStep(r)

SpecFirstGrants == InitFirstGrants /\ [][NextFirstGrants]_vars

\* Enrollments and unenrollments of one user on two connections.
NextEnroll ==
    \E r \in Reqs :
        \/ StartEnroll(r, {"u1"}, {"k1", "k2"})
        \/ StartUnenroll(r, {"u1"}, {"k1"})
        \/ EnrollStep(r)
        \/ UnenrollStep(r)

SpecEnroll == Init /\ [][NextEnroll]_vars

\* One user on one connection: enrolling, unenrolling, watching chapters to the
\* end, reporting progress without completion, and opening chapters.
NextDetails ==
    \/ StartEnroll("r1", {"u1"}, {"k1"})
    \/ EnrollStep("r1")
    \/ StartUnenroll("r1", {"u1"}, {"k1"})
    \/ UnenrollStep("r1")
    \/ StartWatch("r1", {"u1"}, {"c1", "c3"})
    \/ WatchStep("r1")
    \/ StartProgress("r1", {"u1"}, {"c1", "c3"}, Times, {FALSE})
    \/ FindChapter("r1")
    \/ UpsertProgress("r1")
    \/ StartDetails("r1", {"u1"}, {"c1", "c2", "c3", "c4"})
    \/ DetailsStep("r1")

SpecDetails == Init /\ [][NextDetails]_vars

----------------------------------------------------------------------------
\* Properties.

EarnedCount(u, note) == Cardinality(EarnedFor(u, note))

\* C1: every Wallet's balance equals the sum of the amounts of its EARNED
\* transactions minus the sum of the amounts of its REDEEMED transactions, in
\* every reachable store state, whatever the interleaving and the failures.
C1_BalanceMatchesLedger ==
    \A w \in wallets :
        w.balance = AmountsOf(w.id, "EARNED") - AmountsOf(w.id, "REDEEMED")

\* A wallet holds coins while one request has been answered 500 from inside its
\* reward block and another has an uncommitted Transaction row.
C1_Witness ==
    /\ \E w \in wallets : w.balance > 0
    /\ \E r \in Reqs : req[r].pc = "done" /\ req[r].resp.status = 500 /\ req[r].amount > 0
    /\ \E r \in Reqs : req[r].txTxns # <<>>

\* C2: whatever the sequence of submitQuizResult calls, at most one EARNED
\* transaction exists for a (user, quiz) whose quiz has coinValue > 0.
C2_AtMostOneQuizReward ==
    \A u \in Users, q \in QuizIds :
        Quiz[q].coinValue > 0 => EarnedCount(u, QuizNote(q)) <= 1

\* C3: when the two concurrent passing submissions of a user who had not passed
\* the quiz have both been answered, exactly one EARNED transaction exists for
\* the pair and the balance has been raised by quiz.coinValue once.
C3_RaceGrantsOnce ==
    Quiescent =>
        /\ EarnedCount("u1", QuizNote("q1")) = 1
        /\ BalanceOf("u1") = Quiz["q1"].coinValue

\* C4: after N >= 1 successive updateVideoProgress calls with completed = true
\* for a published chapter with coinValue > 0, exactly one EARNED transaction
\* exists for (user, chapter) and the balance has been raised by
\* chapter.coinValue once.
C4_ProgressGrantsOnce ==
    req["r1"].pc = "done" =>
        LET u == req["r1"].user
            c == req["r1"].unit
        IN /\ EarnedCount(u, ChapterNote(c)) = 1
           /\ BalanceOf(u) = Chapter[c].coinValue

\* C5: after N >= 1 successive passing submitQuizResult calls exactly one EARNED
\* transaction exists for (user, quiz), balance and coinsEarned equal coinValue
\* and the stored row holds the latest score with passed = true.
C5_AfterPassingCalls ==
    req["r1"].pc = "done" =>
        LET u == req["r1"].user
            q == req["r1"].unit
        IN /\ EarnedCount(u, QuizNote(q)) = 1
           /\ BalanceOf(u) = Quiz[q].coinValue
           /\ coinsEarned[u] = Quiz[q].coinValue
           /\ \A x \in ResultOf(u, q) : x.score = req["r1"].score /\ x.passed
           /\ ResultOf(u, q) # {}

\* C5: the transaction is created by the first call (the one that found no
\* QuizResult row); a later passing call changes neither Wallet, User.coinsEarned
\* nor the Transaction log and returns coinsAwarded = 0.
C5_LaterCallStep ==
    \A r \in Reqs :
        /\ (req[r].existing # <<>>) =>
              /\ <<coinsEarned, wallets, transactions>>' = <<coinsEarned, wallets, transactions>>
              /\ (req'[r].pc = "done" => req'[r].resp.coinsAwarded = 0)
        /\ (req[r].existing = <<>> /\ req[r].pc # "idle" /\ req'[r].pc = "done") =>
              req'[r].resp.coinsAwarded = Quiz[req[r].unit].coinValue

\* C5: N >= 1 successive passing submitQuizResult calls create exactly one EARNED
\* transaction, created by the first call; each later call overwrites the stored
\* score/passed, leaves Wallet.balance, User.coinsEarned and the Transaction log
\* unchanged and returns coinsAwarded = 0.
C5_IdempotentResubmission == []C5_AfterPassingCalls /\ [][C5_LaterCallStep]_vars

\* A second passing submission with another score has been answered without a reward.
C5_Witness ==
    /\ req["r1"].pc = "done"
    /\ req["r1"].resp.status = 200
    /\ req["r1"].resp.coinsAwarded = 0
    /\ req["r1"].score = 90
    /\ \E x \in ResultOf(req["r1"].user, req["r1"].unit) : x.score = 90
    /\ EarnedCount(req["r1"].user, QuizNote(req["r1"].unit)) = 1

\* C6: a request whose reward grant is answered with a server error leaves
\* User.coinsEarned, the Wallet table and the Transaction log as they were
\* when it entered the grant.
C6_GrantAllOrNothing ==
    [][\A r \in Reqs :
          (req[r].pre # <<>> /\ req'[r].pc = "done" /\ req'[r].resp.status = 500)
              => <<coinsEarned, wallets, transactions>>' = req[r].pre]_vars

\* C7: in every reachable store state User.coinsEarned equals the sum of the
\* EARNED transaction amounts of the user's wallet (0 without a wallet).
C7_CoinsEarnedLockstep ==
    \A u \in Users : coinsEarned[u] = EarnedTotal(u)

\* C8: when a first-time passing submission was answered 500 from inside its
\* reward grant and the same submission has been sent again and answered,
\* exactly one EARNED transaction exists for (user, quiz) and the balance has
\* been raised by coinValue once.
C8_RetryGrantsReward ==
    (req["r2"].pc = "done" /\ req["r1"].pc = "done" /\ req["r1"].amount > 0) =>
        LET u == req["r2"].user
            q == req["r2"].unit
        IN /\ EarnedCount(u, QuizNote(q)) = 1
           /\ BalanceOf(u) = Quiz[q].coinValue

\* C9: with no request in flight, a stored QuizResult with passed = true for a
\* quiz with coinValue > 0 implies a committed EARNED transaction for that
\* (user, quiz).
C9_PassedImpliesRewarded ==
    Quiescent =>
        \A x \in quizResults :
            (x.passed /\ Quiz[x.quizId].coinValue > 0)
                => EarnedFor(x.userId, QuizNote(x.quizId)) # {}

\* C10: with no request in flight, chapterProgress.completed = true for a
\* published chapter with coinValue > 0 implies that the reward for that
\* (user, chapter) has been granted.
C10_CompletedImpliesRewarded ==
    Quiescent =>
        \A x \in chapterProgress :
            (x.completed /\ Chapter[x.chapterId].coinValue > 0)
                => EarnedFor(x.userId, ChapterNote(x.chapterId)) # {}

\* C11: after a successful updateVideoProgress call with completed = true the
\* stored chapterProgress row for (user, chapter) has completed = true and holds
\* the submitted currentTime, and the progress of the response has
\* completed = true.
C11_CompletedIsStored ==
    (req["r1"].pc = "done" /\ req["r1"].resp.status = 200) =>
        /\ ProgressOf(req["r1"].user, req["r1"].unit) # {}
        /\ \A x \in ProgressOf(req["r1"].user, req["r1"].unit) :
              x.completed /\ x.currentTime = req["r1"].currentTime
        /\ \A i \in 1..Len(req["r1"].resp.progress) : req["r1"].resp.progress[i].completed

ledger == <<coinsEarned, wallets, transactions>>

\* C12: no step of a submitQuizResult request whose score is below
\* quiz.passScore creates a Transaction or a Wallet or changes a balance or
\* User.coinsEarned, whatever is stored for (user, quiz); its response has
\* passed = false and coinsAwarded = 0.
C12_NoRewardOnFail ==
    [][\A r \in Reqs :
          (/\ req'[r] # req[r]
           /\ req'[r].kind = "submitQuizResult"
           /\ req'[r].unit \in QuizIds
           /\ req'[r].score < Quiz[req'[r].unit].passScore)
          => /\ ledger' = ledger
             /\ (req'[r].pc = "done" /\ req'[r].resp.status = 200)
                   => (~req'[r].resp.passed /\ req'[r].resp.coinsAwarded = 0)]_vars

\* A failing submission has been answered for a user who had passed the quiz
\* and been rewarded before.
C12_Witness ==
    /\ req["r1"].pc = "done"
    /\ req["r1"].kind = "submitQuizResult"
    /\ req["r1"].score = 60
    /\ req["r1"].resp.status = 200
    /\ BalanceOf(req["r1"].user) = 50
    /\ \E x \in ResultOf(req["r1"].user, req["r1"].unit) : ~x.passed /\ x.score = 60

\* The reward rule of spec 4.2 on what a request has read: the quiz rewards,
\* the score passes, and no earlier result or one with passed = false.
Eligible(me) ==
    /\ Quiz[me.unit].coinValue > 0
    /\ me.score >= Quiz[me.unit].passScore
    /\ (me.existing = <<>> \/ ~me.existing[1].passed)

\* C13: a successful submitQuizResult returns coinsAwarded = quiz.coinValue
\* exactly when coinValue > 0, the score passes and the QuizResult stored before
\* the request is absent or has passed = false, and 0 otherwise; only such a
\* request changes User.coinsEarned, the Wallet table or the Transaction log.
C13_CoinsAwardedRule ==
    [][\A r \in Reqs :
          /\ (req[r].pc \notin {"idle", "done"} /\ req'[r].pc = "done"
                 /\ req'[r].resp.status = 200)
              => req'[r].resp.coinsAwarded =
                    IF Eligible(req[r]) THEN Quiz[req[r].unit].coinValue ELSE 0
          /\ (req'[r] # req[r] /\ ledger' # ledger) => Eligible(req[r])]_vars

\* A passing submission to the quiz with coinValue = 0 has been answered, and
\* the user has no wallet.
C13_Witness ==
    /\ req["r1"].pc = "done"
    /\ req["r1"].unit = "q0"
    /\ req["r1"].score = 80
    /\ req["r1"].resp.status = 200
    /\ req["r1"].resp.passed
    /\ req["r1"].resp.coinsAwarded = 0
    /\ WalletOf(req["r1"].user) = {}

\* C14: a success response reports coinsAwarded = c > 0 only if the answering
\* request committed, in that step, an EARNED transaction of amount c on the
\* user's wallet together with the balance raised by c; a request that leaves
\* its reward block without having committed is answered with a server error.
C14_AwardMeansCommitted ==
    [][\A r \in Reqs :
          (req[r].pc \notin {"idle", "done"} /\ req'[r].pc = "done") =>
              LET c == req'[r].resp.coinsAwarded
                  u == req[r].user
              IN /\ (req'[r].resp.status = 200 /\ c > 0) =>
                        /\ Len(transactions') = Len(transactions) + 1
                        /\ SubSeq(transactions', 1, Len(transactions)) = transactions
                        /\ LET t == transactions'[Len(transactions')]
                           IN /\ t.type = "EARNED"
                              /\ t.amount = c
                              /\ \E w \in wallets' :
                                    /\ w.id = t.walletId
                                    /\ w.userId = u
                                    /\ w.balance = BalanceOf(u) + c
                 /\ (req[r].pre # <<>> /\ transactions' = transactions) =>
                        req'[r].resp.status = 500]_vars

\* A request was answered 500 from inside its reward block, nothing having been
\* committed for the user.
C14_Witness ==
    /\ req["r1"].pc = "done"
    /\ req["r1"].resp.status = 500
    /\ req["r1"].amount > 0
    /\ WalletOf(req["r1"].user) = {}
    /\ transactions = <<>>

\* C15: every Transaction row is created as one EARNED row whose amount is the
\* strictly positive coinValue of the quiz or chapter of the request that wrote
\* it, whose wallet is owned by that request's user, and whose note is
\* "Passed quiz: <title>" or "Completed chapter: <title>" of that unit.
C15_TransactionShape ==
    [][transactions' # transactions =>
          \E r \in Reqs :
             LET me == req[r]
                 coin == IF me.kind = "submitQuizResult"
                         THEN Quiz[me.unit].coinValue
                         ELSE Chapter[me.unit].coinValue
                 note == IF me.kind = "submitQuizResult"
                         THEN <<"Passed quiz: ", Quiz[me.unit].title>>
                         ELSE <<"Completed chapter: ", Chapter[me.unit].title>>
             IN /\ req'[r] # me
                /\ coin > 0
                /\ \E w \in wallets' :
                      /\ w.userId = me.user
                      /\ transactions' =
                            Append(transactions,
                                   [walletId |-> w.id, type |-> "EARNED",
                                    amount |-> coin, note |-> note])]_vars

\* Two users have each been granted a reward: two wallets, one transaction on each.
C15_Witness ==
    /\ Cardinality(wallets) = 2
    /\ Len(transactions) = 2
    /\ transactions[1].walletId # transactions[2].walletId
    /\ transactions[1].note # transactions[2].note

\* C16: once a submitQuizResult call has been answered successfully, the one
\* QuizResult row of its (user, quiz) holds that call's score and
\* passed = (score >= passScore); a later attempt rewrites the row of the earlier
\* one in place (same id, no other row touched).
C16_LatestAttemptStored ==
    /\ [](\A r \in Reqs :
            (/\ req[r].pc = "done"
             /\ req[r].kind = "submitQuizResult"
             /\ req[r].resp.status = 200)
            => /\ Cardinality(ResultOf(req[r].user, req[r].unit)) = 1
               /\ \A x \in ResultOf(req[r].user, req[r].unit) :
                     /\ x.score = req[r].score
                     /\ x.passed = (req[r].score >= Quiz[req[r].unit].passScore))
    /\ [][\A r \in Reqs :
            req[r].pc = "updateResult" /\ req'[r] # req[r] =>
               /\ {x.id : x \in quizResults'} = {x.id : x \in quizResults}
               /\ \A x \in quizResults :
                     (x.userId # req[r].user \/ x.quizId # req[r].unit)
                        => x \in quizResults']_vars

\* A failing attempt has been stored over a passing one that was rewarded.
C16_Witness ==
    /\ req["r1"].pc = "done"
    /\ req["r1"].kind = "submitQuizResult"
    /\ req["r1"].resp.status = 200
    /\ ~req["r1"].resp.passed
    /\ EarnedCount(req["r1"].user, QuizNote(req["r1"].unit)) = 1
    /\ \E x \in ResultOf(req["r1"].user, req["r1"].unit) :
          x.score = req["r1"].score /\ ~x.passed
    /\ \E y \in quizResults : y.userId # req["r1"].user

\* C17: in every reachable state, whatever the interleaving of concurrent
\* requests, there is at most one QuizResult row per (userId, quizId) and at
\* most one chapterProgress row per (userId, chapterId).
C17_OneRowPerPair ==
    /\ \A u \in Users, q \in QuizIds : Cardinality(ResultOf(u, q)) <= 1
    /\ \A u \in Users, c \in ChapterIds : Cardinality(ProgressOf(u, c)) <= 1

\* A request that read "no earlier result" is about to insert while the row of
\* its (user, quiz) has been inserted by the other connection; a chapterProgress
\* row has been upserted as well.
C17_Witness ==
    /\ \E r \in Reqs :
          /\ req[r].pc = "createResult"
          /\ req[r].existing = <<>>
          /\ ResultOf(req[r].user, req[r].unit) # {}
    /\ chapterProgress # {}

\* C18: a submitQuizResult request running concurrently with another one for
\* the same (user, quiz) is never answered with a server error; once both are
\* answered, the one that lost the race reports coinsAwarded = 0.
C18_RaceLoserSucceeds ==
    /\ \A r \in Reqs : req[r].pc = "done" => req[r].resp.status = 200
    /\ Quiescent => \E r \in Reqs : req[r].resp.coinsAwarded = 0

\* C19: two reward grants of one user for two different units, running
\* concurrently against the user's existing wallet, both take effect: when both
\* requests are answered the balance and User.coinsEarned are the initial value
\* plus both amounts and both EARNED transactions exist next to the earlier one.
C19_BothGrantsTakeEffect ==
    Quiescent =>
        /\ \A r \in Reqs : req[r].resp.status = 200
        /\ BalanceOf("u1") =
              Quiz["q2"].coinValue + Quiz["q1"].coinValue + Chapter["c1"].coinValue
        /\ coinsEarned["u1"] =
              Quiz["q2"].coinValue + Quiz["q1"].coinValue + Chapter["c1"].coinValue
        /\ EarnedCount("u1", QuizNote("q1")) = 1
        /\ EarnedCount("u1", ChapterNote("c1")) = 1
        /\ Len(transactions) = 3
        /\ Cardinality(wallets) = 1

\* Both requests have been answered with their rewards, granted on the wallet
\* the user had.
C19_Witness ==
    /\ Quiescent
    /\ Len(transactions) = 3
    /\ BalanceOf("u1") = 100
    /\ req["r1"].resp.coinsAwarded = 50
    /\ req["r2"].resp.coinsAwarded = 20

\* C20: in every reachable state each user owns at most one Wallet and a user
\* without a committed reward owns none; a Wallet row appears only at the commit
\* of a reward grant that created it with balance 0, so it first shows the
\* grant's amount.
C20_WalletOnlyByGrant ==
    /\ [](\A u \in Users :
            /\ Cardinality(WalletOf(u)) <= 1
            /\ WalletOf(u) # {} => EarnedTotal(u) > 0)
    /\ [][\A w \in wallets' :
            w.id \notin {x.id : x \in wallets} =>
               \E r \in Reqs :
                  /\ req[r].pc = "txUpdateWallet"
                  /\ req'[r].pc = "done"
                  /\ req[r].newWallet
                  /\ req[r].wallet = w.id
                  /\ req[r].user = w.userId
                  /\ req[r].amount > 0
                  /\ w.balance = 0 + req[r].amount]_vars

\* A grant has created the user's wallet while the other connection's grant,
\* which found none, is about to insert one; the other user has no wallet.
C20_Witness ==
    /\ Cardinality(WalletOf("u1")) = 1
    /\ WalletOf("u2") = {}
    /\ \E r \in Reqs : req[r].pc = "txCreateWallet" /\ req[r].user = "u1"

\* C21: a submitQuizResult whose body has no score, or a score below 0 or
\* above 100, is answered 400 in the step that receives it, before any store
\* read or write: QuizResult, Wallet, Transaction and User stay as they were, at
\* that step and for as long as the answered request is on record.
C21_InvalidScoreRejected ==
    [][\A r \in Reqs :
          (/\ req'[r].kind = "submitQuizResult"
           /\ \/ ~req'[r].scoreGiven
              \/ req'[r].score < 0
              \/ req'[r].score > 100)
          => /\ req'[r].pc = "done"
             /\ req'[r].resp.status = 400
             /\ req'[r].resp.coinsAwarded = 0
             /\ store' = store]_vars

\* A score above 100 and then a body without a score have been rejected after
\* an accepted submission had stored a result and its reward.
C21_Witness ==
    /\ req["r1"].pc = "done"
    /\ req["r1"].kind = "submitQuizResult"
    /\ ~req["r1"].scoreGiven
    /\ req["r1"].resp.status = 400
    /\ \E x \in quizResults : x.score = 100 /\ x.passed
    /\ BalanceOf("u1") = 50

\* C22: a request that names a quiz or chapter that does not exist, a chapter
\* that is not published, or whose authenticated user id has no User row, is
\* answered with a client error (4xx) and writes nothing to QuizResult,
\* chapterProgress, User, Wallet or Transaction.
C22_NotFoundIsClientError ==
    [][\A r \in Reqs :
          (/\ req[r].pc \notin {"idle", "done"}
           /\ req'[r] # req[r]
           /\ \/ req[r].user \notin Users
              \/ req[r].kind = "submitQuizResult" /\ req[r].unit \notin QuizIds
              \/ /\ req[r].kind \in {"updateVideoProgress", "markChapterAsWatched"}
                 /\ \/ req[r].unit \notin ChapterIds
                    \/ ~Chapter[req[r].unit].isPublished)
          => /\ store' = store
             /\ req'[r].pc = "done" => req'[r].resp.status \in 400..499]_vars

\* C23: Wallet.balance >= 0 in every reachable state.
C23_BalanceNonNegative ==
    \A w \in wallets : w.balance >= 0

\* The user has passed the quiz with the negative coinValue and owns a wallet
\* filled by the other quiz.
C23_Witness ==
    /\ \E x \in ResultOf("u1", "qn") : x.passed
    /\ \E r \in Reqs : /\ req[r].pc = "done"
                       /\ req[r].unit = "qn"
                       /\ req[r].resp.status = 200
    /\ \E w \in wallets : w.balance > 0

\* C24: the Transaction log is append-only: every step leaves each existing
\* Transaction in place with its walletId, type, amount and note, so the log
\* only grows.
C24_TransactionsAppendOnly ==
    [][/\ Len(transactions') >= Len(transactions)
       /\ \A i \in 1..Len(transactions) : transactions'[i] = transactions[i]]_vars

\* A request failed in the store after two Transactions had been written, and
\* both are still there.
C24_Witness ==
    /\ Len(transactions) = 2
    /\ \E r \in Reqs : /\ req[r].pc = "done"
                       /\ req[r].resp.status = 500
                       /\ req[r].amount = 0

\* C25: rewards are never revoked: every step leaves each User.coinsEarned and
\* each Wallet.balance at least as high as it was and removes no Wallet; a
\* failing submission for a rewarded quiz changes neither.
C25_NeverRevoked ==
    [][/\ \A u \in Users : coinsEarned'[u] >= coinsEarned[u]
       /\ \A w \in wallets :
             \E v \in wallets' : /\ v.id = w.id
                                 /\ v.userId = w.userId
                                 /\ v.balance >= w.balance
       /\ \A r \in Reqs :
             (req[r].pc = "updateResult" /\ req'[r] # req[r] /\ ~req[r].passed)
                => ledger' = ledger]_vars

\* A failing attempt has replaced the rewarded pass of the quiz and the reward
\* is still in the wallet and in coinsEarned.
C25_Witness ==
    /\ \E r \in Reqs :
          /\ req[r].pc = "done"
          /\ req[r].kind = "submitQuizResult"
          /\ req[r].resp.status = 200
          /\ ~req[r].resp.passed
          /\ \E x \in ResultOf(req[r].user, req[r].unit) : ~x.passed
          /\ EarnedCount(req[r].user, QuizNote(req[r].unit)) >= 1
          /\ coinsEarned[req[r].user] >= Quiz[req[r].unit].coinValue
    /\ \E w \in wallets : w.balance = EarnedTotal(w.userId) /\ w.balance > 0

\* C26: Chapter.videoStatus is always one of pending, processing, ready and
\* error; it is pending while the chapter has no asset, and processing once a
\* video has been uploaded and until a webhook for its asset is handled.
C26_VideoStatusDocumented ==
    \A c \in ChapterIds :
        /\ chapterVideo[c].videoStatus \in {"pending", "processing", "ready", "error"}
        /\ chapterVideo[c].videoStatus = "pending" => chapterVideo[c].muxAssetId = 0
        /\ (chapterVideo[c].muxAssetId # 0 /\ chapterVideo[c].muxPlaybackId = 0)
              => chapterVideo[c].videoStatus = "processing"

\* C27: two first-time reward grants of one user for two different quizzes,
\* running concurrently while the user has no Wallet, both succeed: when both
\* requests are answered there is exactly one Wallet, its balance is the sum of
\* both coin values, two EARNED transactions exist and User.coinsEarned equals
\* the balance.
C27_FirstGrantsBothSucceed ==
    Quiescent =>
        /\ \A r \in Reqs : req[r].resp.status = 200
        /\ Cardinality(wallets) = 1
        /\ BalanceOf("u1") = Quiz["q1"].coinValue + Quiz["q2"].coinValue
        /\ Len(transactions) = 2
        /\ EarnedCount("u1", QuizNote("q1")) = 1
        /\ EarnedCount("u1", QuizNote("q2")) = 1
        /\ coinsEarned["u1"] = BalanceOf("u1")

\* C28: in every reachable state there is at most one EnrolledCourse row per
\* (user, course), also when two enrollInCourse requests for the pair run
\* concurrently.
C28_OneEnrollmentPerPair ==
    \A u \in Users, k \in CourseIds : Cardinality(EnrollmentOf(u, k)) <= 1

\* C29: getChapterDetails answers with the chapter's content only if the user
\* is enrolled in the chapter's course and every published chapter of that
\* course with a lower order has a chapterProgress row with completed = true for
\* the user; for a published chapter it answers 403 otherwise, and when a
\* prerequisite is missing it names an earlier chapter the user has not
\* completed.
C29_ChapterGate ==
    LET me == req["r1"]
        done(p) == \E x \in ProgressOf(me.user, p) : x.completed
        enrolled == EnrollmentOf(me.user, Chapter[me.unit].courseId) # {}
        lower == {p \in ChapterIds : /\ Chapter[p].isPublished
                                     /\ Chapter[p].courseId = Chapter[me.unit].courseId
                                     /\ Chapter[p].order < Chapter[me.unit].order}
    IN (me.pc = "done" /\ me.kind = "getChapterDetails" /\ me.resp.status # 404) =>
          /\ me.resp.status = 200 <=> (enrolled /\ \A p \in lower : done(p))
          /\ me.resp.status # 200 => me.resp.status = 403
          /\ (enrolled /\ me.resp.status = 403) =>
                /\ me.resp.requiredChapter \in lower
                /\ ~done(me.resp.requiredChapter)

\* The fourth chapter has been opened after the two published chapters before
\* it were completed, and the chapter between them is not published.
C29_Witness ==
    /\ req["r1"].pc = "done"
    /\ req["r1"].kind = "getChapterDetails"
    /\ req["r1"].unit = "c4"
    /\ req["r1"].resp.status = 200
    /\ \A p \in {"c1", "c3"} : \E x \in ProgressOf("u1", p) : x.completed
    /\ ProgressOf("u1", "c2") = {}

\* C30: a Mux webhook event (ready, errored, deleted) whose asset id is, when
\* the handler looks it up, not the muxAssetId of any chapter changes no chapter
\* and is answered 200; so a ready event for an asset that was replaced by a
\* newer upload, or cleared, leaves videoStatus, videoUrl and muxPlaybackId as
\* they are.  Every webhook is answered 200.
C30_StaleEventIgnored ==
    [][\A r \in Reqs :
          /\ (/\ req[r].pc = "hookFind"
              /\ req'[r] # req[r]
              /\ \A c \in ChapterIds : chapterVideo[c].muxAssetId # req[r].asset)
             => /\ chapterVideo' = chapterVideo
                /\ req'[r].pc = "done"
                /\ req'[r].resp.status = 200
          /\ (req[r].kind = "handleMuxWebhook" /\ req[r].pc # "done" /\ req'[r].pc = "done")
             => req'[r].resp.status = 200]_vars

\* The ready event of the first asset has been answered while a chapter points
\* at the second asset, still not ready, and nothing carries the first asset's
\* playback id.
C30_Witness ==
    /\ \E r \in Reqs :
          /\ req[r].pc = "done"
          /\ req[r].event = "video.asset.ready"
          /\ req[r].asset = 1
          /\ req[r].playback = PlaybackOf(1)
          /\ req[r].unit = "none"
          /\ req[r].resp.status = 200
    /\ \E c \in ChapterIds : /\ chapterVideo[c].muxAssetId = 2
                             /\ chapterVideo[c].videoStatus # "ready"
    /\ \A c \in ChapterIds : /\ chapterVideo[c].muxAssetId # 1
                             /\ chapterVideo[c].muxPlaybackId # PlaybackOf(1)

====
